---- MODULE Spec2Model ----
(* N-dimensional Mines (src/mines/lab.py): new_game_nd, dig_nd and the      *)
(* helpers they use, as a state machine.  A game is the dictionary          *)
(* {'dimensions', 'board', 'hidden', 'state'}; the nested lists 'board' and *)
(* 'hidden' are functions from coordinate tuples to cell values.  dig_nd is *)
(* followed statement by statement through the recursion of its inner      *)
(* function zero, so that every single write to 'hidden' is a step.         *)
EXTENDS Integers, Sequences, FiniteSets, TLC

(* ------------------------------ bounds -------------------------------- *)
\* largest number of cells of an enumerated board
MaxCells == 4
\* largest number of axes of an enumerated board
MaxAxes == 3
\* longest enumerated bomb list
MaxBombs == 2
\* largest board and longest bomb list of the games handed to dig_nd with an
\* arbitrary 'hidden' array and state (the doctest board is always included)
MaxGivenCells == 3
MaxGivenBombs == 1

(* --------------------------- Python values ---------------------------- *)
\* A board cell holds the str '.' or an int; a value is tagged with its
\* Python type so that '.' == 0 is False, as in Python.
PyInt(n) == [ty |-> "int", v |-> n]
PyStr(s) == [ty |-> "str", v |-> s]
\* val == '.'
IsBombMarker(val) == val.ty = "str" /\ val.v = "."
\* val == 0
IsZero(val) == val.ty = "int" /\ val.v = 0
\* val > 0  (only ever evaluated on an int: the '.' case has returned before)
IsPositive(val) == val.ty = "int" /\ val.v > 0

(* ------------------------------ helpers ------------------------------- *)
\* dimensions[1:], coordinate[1:]
Rest(s) == SubSeq(s, 2, Len(s))

RECURSIVE coords(_)
\* every coordinate of a board of the given dimensions, axis-major
coords(dims) ==
  IF Len(dims) = 0 THEN << <<>> >>
  ELSE LET inner == coords(Rest(dims))
           row(i) == [k \in 1..Len(inner) |-> <<i>> \o inner[k]]
           RECURSIVE rows(_)
           rows(i) == IF i >= dims[1] THEN <<>> ELSE row(i) \o rows(i + 1)
       IN  rows(0)

\* the index set of the nested lists new_board builds
Cells(dims) == LET all == coords(dims) IN {all[k] : k \in 1..Len(all)}

\* new_board(dimensions, value): nested lists, every leaf holding value
new_board(dims, value) == [c \in Cells(dims) |-> value]

\* find_val(board, coordinate)
find_val(b, c) == b[c]

\* replace(board, coordinate, value): in-place write of one leaf
replace(b, c, value) == [b EXCEPT ![c] = value]

RECURSIVE get_neighbors_NoUpper(_, _)
\* get_neighbors with range(coordinate[0]-1, coordinate[0]+1): the upper
\* neighbour on every axis is left out
get_neighbors_NoUpper(dims, c) ==
  LET RECURSIVE from(_)
      from(i) ==
        IF i >= c[1] + 1 THEN <<>>
        ELSE IF i < 0 \/ i >= dims[1] THEN from(i + 1)
        ELSE IF Len(c) = 1 THEN << <<i>> >> \o from(i + 1)
        ELSE LET inner == get_neighbors_NoUpper(Rest(dims), Rest(c))
             IN  [k \in 1..Len(inner) |-> <<i>> \o inner[k]] \o from(i + 1)
  IN  from(c[1] - 1)

RECURSIVE get_neighbors(_, _)
\* the generator get_neighbors, as the sequence it yields
get_neighbors(dims, c) ==
  LET RECURSIVE from(_)
      from(i) ==
        IF i >= c[1] + 2 THEN <<>>
        ELSE IF i < 0 \/ i >= dims[1] THEN from(i + 1)
        ELSE IF Len(c) = 1 THEN << <<i>> >> \o from(i + 1)
        ELSE LET inner == get_neighbors(Rest(dims), Rest(c))
             IN  [k \in 1..Len(inner) |-> <<i>> \o inner[k]] \o from(i + 1)
  IN  from(c[1] - 1)

\* neighbor in bombs  (list membership)
InList(x, list) == \E k \in 1..Len(list) : list[k] = x

(* ----------------------------- new_game_nd ---------------------------- *)
RECURSIVE BumpNeighbors(_, _, _)
\* the inner loop of new_game_nd over bomb_neighbors
BumpNeighbors(b, nbrs, bombList) ==
  IF nbrs = <<>> THEN b
  ELSE LET neighbor == Head(nbrs)
       IN  IF InList(neighbor, bombList)
           THEN BumpNeighbors(b, Tail(nbrs), bombList)
           ELSE LET previous == find_val(b, neighbor)
                IN  BumpNeighbors(replace(b, neighbor, PyInt(previous.v + 1)),
                                  Tail(nbrs), bombList)

RECURSIVE PlaceBombs(_, _, _, _)
\* the outer loop of new_game_nd over bombs, from list position k on.  (The
\* test on DOMAIN has the board of one iteration computed before the next
\* iteration starts, as in the code; replace never changes the shape.)
PlaceBombs(b, dims, bombList, k) ==
  IF k > Len(bombList) THEN b
  ELSE LET bomb_coords == bombList[k]
           bomb_neighbors == get_neighbors(dims, bomb_coords)
           marked == replace(b, bomb_coords, PyStr("."))
           bumped == BumpNeighbors(marked, bomb_neighbors, bombList)
       IN  IF DOMAIN bumped = DOMAIN b
           THEN PlaceBombs(bumped, dims, bombList, k + 1)
           ELSE bumped

\* new_game_nd leaving out the first entry of the bomb list
new_game_nd_SkipsFirst(dims, bombList) ==
  [dimensions |-> dims,
   board      |-> PlaceBombs(new_board(dims, PyInt(0)), dims, bombList, 2),
   hidden     |-> new_board(dims, TRUE),
   state      |-> "ongoing"]

\* new_game_nd(dimensions, bombs): the game dictionary
new_game_nd(dims, bombList) ==
  [dimensions |-> dims,
   board      |-> PlaceBombs(new_board(dims, PyInt(0)), dims, bombList, 1),
   hidden     |-> new_board(dims, TRUE),
   state      |-> "ongoing"]

\* new_game_2d(num_rows, num_cols, bombs)
new_game_2d(num_rows, num_cols, bombList) ==
  new_game_nd(<<num_rows, num_cols>>, bombList)

(* ------------------------------- inputs ------------------------------- *)
RECURSIVE Product(_)
Product(dims) == IF dims = <<>> THEN 1 ELSE Head(dims) * Product(Tail(dims))

\* the enumerated board shapes: 1..MaxAxes axes, at most MaxCells cells
SmallDimensions ==
  {d \in UNION {[1..n -> 1..MaxCells] : n \in 1..MaxAxes} : Product(d) <= MaxCells}

\* the bomb lists over in-bounds coordinates, duplicates allowed
BombLists(dims) == UNION {[1..n -> Cells(dims)] : n \in 0..MaxBombs}

\* the board of the doctests: new_game_2d(2, 4, [(0, 0), (1, 0), (1, 1)])
DoctestBombs == << <<0, 0>>, <<1, 0>>, <<1, 1>> >>

(* ------------------------------- state -------------------------------- *)
VARIABLES
  dimensions,   \* game['dimensions']
  board,        \* game['board']
  hidden,       \* game['hidden']
  state,        \* game['state']
  bombs,        \* the bomb list new_game_nd was called with
  pc,           \* "idle": no call running; "call", "loop", "ret": inside zero
  coordinates,  \* argument of the running / last dig_nd call (<<>>: none yet)
  stack,        \* zero's activation records below the running call
  arg,          \* coordinates argument of the zero call being entered
  rv,           \* value being returned by the zero call that just ended
  ret,          \* value returned by the last dig_nd call (-1: none yet)
  hidden0,      \* game['hidden'] when the running / last dig_nd call began
  state0,       \* game['state'] when the running / last dig_nd call began
  expanded,     \* the cells zero went past its guard on, in order, in the
                \* running / last dig_nd call
  rendered      \* the last call of a render function since the last dig_nd
                \* call, and the value it returned

game == <<dimensions, board, hidden, state>>
vars == <<dimensions, board, hidden, state, bombs, pc, coordinates, stack,
          arg, rv, ret, hidden0, state0, expanded, rendered>>

\* no render function has been called
NotRendered == [fn |-> "none", xray |-> FALSE, value |-> <<>>]

Idle ==
  /\ pc = "idle" /\ coordinates = <<>> /\ stack = <<>> /\ arg = <<>>
  /\ rv = 0 /\ ret = -1 /\ hidden0 = hidden /\ state0 = state
  /\ expanded = <<>> /\ rendered = NotRendered

\* the calls new_game_nd(dimensions, bombs) the model starts from
Inputs ==
  UNION {{<<d, bl>> : bl \in BombLists(d)} : d \in SmallDimensions} \cup
  {<<<<2, 4>>, DoctestBombs>>}

\* the boards of the games a caller hands to dig_nd
GivenInputs ==
  {in \in Inputs : \/ in = <<<<2, 4>>, DoctestBombs>>
                   \/ Product(in[1]) <= MaxGivenCells /\ Len(in[2]) <= MaxGivenBombs}

\* the game is the dictionary new_game_nd returned
Init ==
  /\ \E in \in Inputs :
       LET g == new_game_nd(in[1], in[2])
       IN  /\ dimensions = g.dimensions /\ board = g.board
           /\ hidden = g.hidden /\ state = g.state
           /\ bombs = in[2]
  /\ Idle

\* the game is any dictionary a caller hands to dig_nd, as the doctests do:
\* a board new_game_nd built, any 'hidden' array of its shape, any state
InitGiven ==
  /\ \E in \in GivenInputs :
       LET g == new_game_nd(in[1], in[2])
       IN  /\ dimensions = g.dimensions /\ board = g.board
           /\ hidden \in [Cells(in[1]) -> BOOLEAN]
           /\ state \in {"ongoing", "defeat", "victory"}
           /\ bombs = in[2]
  /\ Idle

(* ------------------------------- dig_nd ------------------------------- *)
\* dig_nd(game, c) is called: the caller's arguments are bound
Enter(c) ==
  /\ pc = "idle"
  /\ c \in Cells(dimensions)
  /\ coordinates' = c
  /\ hidden0' = hidden
  /\ state0' = state
  /\ expanded' = <<>>
  /\ rendered' = NotRendered

\* if game['state'] == 'defeat' or game['state'] == 'victory': return 0
DigTerminal(c) ==
  /\ Enter(c)
  /\ state = "defeat" \/ state = "victory"
  /\ ret' = 0
  /\ UNCHANGED <<dimensions, board, hidden, state, bombs, pc, stack, arg, rv>>

\* DigBomb with the terminal-state test left out
DigBomb_NoTerminalTest(c) ==
  /\ Enter(c)
  /\ IsBombMarker(find_val(board, c))
  /\ hidden' = replace(hidden, c, FALSE)
  /\ state' = "defeat"
  /\ ret' = 1
  /\ UNCHANGED <<dimensions, board, bombs, pc, stack, arg, rv>>

\* DigBomb with the assignment game['state'] = 'defeat' left out
DigBomb_NoDefeat(c) ==
  /\ Enter(c)
  /\ ~(state = "defeat" \/ state = "victory")
  /\ IsBombMarker(find_val(board, c))
  /\ hidden' = replace(hidden, c, FALSE)
  /\ ret' = 1
  /\ UNCHANGED <<dimensions, board, state, bombs, pc, stack, arg, rv>>

\* DigBomb writing True, as zero does, instead of False
DigBomb_WritesTrue(c) ==
  /\ Enter(c)
  /\ ~(state = "defeat" \/ state = "victory")
  /\ IsBombMarker(find_val(board, c))
  /\ hidden' = replace(hidden, c, TRUE)
  /\ state' = "defeat"
  /\ ret' = 1
  /\ UNCHANGED <<dimensions, board, bombs, pc, stack, arg, rv>>

\* if val == '.': reveal the cell, state 'defeat', return 1
DigBomb(c) ==
  /\ Enter(c)
  /\ ~(state = "defeat" \/ state = "victory")
  /\ IsBombMarker(find_val(board, c))
  /\ hidden' = replace(hidden, c, FALSE)
  /\ state' = "defeat"
  /\ ret' = 1
  /\ UNCHANGED <<dimensions, board, bombs, pc, stack, arg, rv>>

\* if val == 0: replace(game['hidden'], coordinates, False), then call zero
DigZero(c) ==
  /\ Enter(c)
  /\ ~(state = "defeat" \/ state = "victory")
  /\ ~IsBombMarker(find_val(board, c))
  /\ IsZero(find_val(board, c))
  /\ hidden' = replace(hidden, c, FALSE)
  /\ pc' = "call"
  /\ arg' = c
  /\ stack' = <<>>
  /\ UNCHANGED <<dimensions, board, state, bombs, rv, ret>>

\* elif val > 0: game['state'] = 'ongoing'; return 1
DigPositive(c) ==
  /\ Enter(c)
  /\ ~(state = "defeat" \/ state = "victory")
  /\ ~IsBombMarker(find_val(board, c))
  /\ ~IsZero(find_val(board, c))
  /\ IsPositive(find_val(board, c))
  /\ state' = "ongoing"
  /\ ret' = 1
  /\ UNCHANGED <<dimensions, board, hidden, bombs, pc, stack, arg, rv>>

(* -------------------- zero(game, coordinates), inner ------------------ *)
\* if find_val(game['hidden'], coordinates): total += 1; return total
ZeroGuard ==
  /\ pc = "call"
  /\ find_val(hidden, arg)
  /\ rv' = 1
  /\ pc' = "ret"
  /\ arg' = <<>>
  /\ UNCHANGED <<game, bombs, coordinates, stack, ret, hidden0, state0,
               expanded, rendered>>

\* ZeroExpand writing False where the code writes True
ZeroExpand_WritesFalse ==
  /\ pc = "call"
  /\ ~find_val(hidden, arg)
  /\ LET uncovered == find_val(board, arg)
     IN  IF IsZero(uncovered)
         THEN /\ hidden' = replace(replace(hidden, arg, FALSE), arg, FALSE)
              /\ stack' = <<[coordinates |-> arg,
                             neighbors   |-> get_neighbors(dimensions, arg),
                             total       |-> 0]>> \o stack
              /\ pc' = "loop"
              /\ rv' = rv
         ELSE /\ hidden' = replace(hidden, arg, FALSE)
              /\ stack' = stack
              /\ pc' = "ret"
              /\ rv' = 0
  /\ expanded' = Append(expanded, arg)
  /\ arg' = <<>>
  /\ UNCHANGED <<dimensions, board, state, bombs, coordinates, ret, hidden0, state0,
               rendered>>

\* the cell is not hidden: replace(game['hidden'], coordinates, True); when
\* uncovered == 0 the generator is made, the write is repeated and the loop
\* over the neighbors begins; otherwise total (0) is returned
ZeroExpand ==
  /\ pc = "call"
  /\ ~find_val(hidden, arg)
  /\ LET uncovered == find_val(board, arg)
     IN  IF IsZero(uncovered)
         THEN /\ hidden' = replace(replace(hidden, arg, TRUE), arg, TRUE)
              /\ stack' = <<[coordinates |-> arg,
                             neighbors   |-> get_neighbors(dimensions, arg),
                             total       |-> 0]>> \o stack
              /\ pc' = "loop"
              /\ rv' = rv
         ELSE /\ hidden' = replace(hidden, arg, TRUE)
              /\ stack' = stack
              /\ pc' = "ret"
              /\ rv' = 0
  /\ expanded' = Append(expanded, arg)
  /\ arg' = <<>>
  /\ UNCHANGED <<dimensions, board, state, bombs, coordinates, ret, hidden0, state0,
               rendered>>

\* for i in neighbors: the next neighbor is drawn and zero(game, i) is called
ZeroNext ==
  /\ pc = "loop"
  /\ Head(stack).neighbors # <<>>
  /\ arg' = Head(Head(stack).neighbors)
  /\ stack' = <<[Head(stack) EXCEPT !.neighbors = Tail(@)]>> \o Tail(stack)
  /\ pc' = "call"
  /\ UNCHANGED <<game, bombs, coordinates, rv, ret, hidden0, state0,
               expanded, rendered>>

\* the generator is exhausted: return total
ZeroDone ==
  /\ pc = "loop"
  /\ Head(stack).neighbors = <<>>
  /\ rv' = Head(stack).total
  /\ stack' = Tail(stack)
  /\ pc' = "ret"
  /\ UNCHANGED <<game, bombs, coordinates, arg, ret, hidden0, state0,
               expanded, rendered>>

\* total += zero(game, i): a recursive call returns into the loop
ZeroReturn ==
  /\ pc = "ret"
  /\ stack # <<>>
  /\ stack' = <<[Head(stack) EXCEPT !.total = @ + rv]>> \o Tail(stack)
  /\ rv' = 0
  /\ pc' = "loop"
  /\ UNCHANGED <<game, bombs, coordinates, arg, ret, hidden0, state0,
               expanded, rendered>>

\* return zero(game, coordinates): the outermost call returns from dig_nd
DigReturn ==
  /\ pc = "ret"
  /\ stack = <<>>
  /\ ret' = rv
  /\ rv' = 0
  /\ pc' = "idle"
  /\ UNCHANGED <<game, bombs, coordinates, stack, arg, hidden0, state0,
               expanded, rendered>>

(* ------------------------------ rendering ----------------------------- *)
\* the decimal digits
Digit(d) == <<"0", "1", "2", "3", "4", "5", "6", "7", "8", "9">>[d + 1]

RECURSIVE IntStr(_)
\* str(n) of an int n >= 0: its decimal text
IntStr(n) == IF n < 10 THEN Digit(n) ELSE IntStr(n \div 10) \o Digit(n % 10)

\* repr(value) in the place of str(value): a str comes out quoted
Repr(value) == IF value.ty = "str" THEN "'" \o value.v \o "'" ELSE IntStr(value.v)

\* str(value) of a board value
Str(value) == IF value.ty = "str" THEN value.v ELSE IntStr(value.v)

RECURSIVE get_coordinates(_)
\* get_coordinates(dimensions): the set of all coordinates
get_coordinates(dims) ==
  IF Len(dims) = 1
  THEN {<<x>> : x \in 0..(dims[1] - 1)}
  ELSE {<<x>> \o y : x \in 0..(dims[1] - 1), y \in get_coordinates(Rest(dims))}

\* render_nd looking at game['hidden'] also when xray is True
render_nd_IgnoresXray(b, h, dims, xray) ==
  LET final == new_board(dims, "0")
      all_coordinates == get_coordinates(dims)
      shown(i) ==
        LET value == Str(find_val(b, i))
        IN  IF find_val(h, i) = TRUE THEN "_"
            ELSE IF value = "0" THEN " "
            ELSE value
  IN  [i \in DOMAIN final |-> IF i \in all_coordinates THEN shown(i) ELSE final[i]]

\* render_nd(game, xray): the array final after the loop over all_coordinates
render_nd(b, h, dims, xray) ==
  LET final == new_board(dims, "0")
      all_coordinates == get_coordinates(dims)
      shown(i) ==
        LET value == Str(find_val(b, i))
        IN  IF xray
            THEN IF value = "0" THEN " " ELSE value
            ELSE IF find_val(h, i) = TRUE THEN "_"
                 ELSE IF value = "0" THEN " "
                 ELSE value
  IN  [i \in DOMAIN final |-> IF i \in all_coordinates THEN shown(i) ELSE final[i]]

\* the cells the loops of render_2d_locations go over
Range2D(dims) == {<<row, col>> : row \in 0..(dims[1] - 1), col \in 0..(dims[2] - 1)}

\* render_2d_locations without the copy game['board'][:]: the rows of strings
\* are stored into the game's own board
render_2d_locations_NoCopy(b, h, dims, xray) ==
  LET shown(c) ==
        LET value == Str(b[c])
        IN  IF xray
            THEN IF value = "0" THEN " " ELSE value
            ELSE IF h[c] THEN "_"
                 ELSE IF value = "0" THEN " "
                 ELSE value
      grid == [c \in DOMAIN b |-> IF c \in Range2D(dims) THEN shown(c) ELSE b[c]]
  IN  [board |-> [c \in DOMAIN b |-> PyStr(grid[c])], grid |-> grid]

\* render_2d_locations without the test for '0' in the xray branch
render_2d_locations_ZeroShown(b, h, dims, xray) ==
  LET shown(c) ==
        LET value == Str(b[c])
        IN  IF xray
            THEN value
            ELSE IF h[c] THEN "_"
                 ELSE IF value = "0" THEN " "
                 ELSE value
  IN  [board |-> b,
       grid  |-> [c \in DOMAIN b |-> IF c \in Range2D(dims) THEN shown(c) ELSE b[c]]]

\* render_2d_locations(game, xray): board is a copy of the list of rows, each
\* row of which is replaced by a new list of strings, so the game's own rows
\* are not written; grid is the list of lists returned
render_2d_locations(b, h, dims, xray) ==
  LET shown(c) ==
        LET value == Str(b[c])
        IN  IF xray
            THEN IF value = "0" THEN " " ELSE value
            ELSE IF h[c] THEN "_"
                 ELSE IF value = "0" THEN " "
                 ELSE value
  IN  [board |-> b,
       grid  |-> [c \in DOMAIN b |-> IF c \in Range2D(dims) THEN shown(c) ELSE b[c]]]

\* "".join(d[row])
JoinRow(d, row, dims) ==
  LET RECURSIVE from(_)
      from(col) == IF col >= dims[2] THEN "" ELSE d[<<row, col>>] \o from(col + 1)
  IN  from(0)

\* render_2d_board(game, xray): the rows joined by newlines
render_2d_board(b, h, dims, xray) ==
  LET d == render_2d_locations(b, h, dims, xray)
      RECURSIVE art(_)
      art(row) ==
        IF row >= dims[1] THEN ""
        ELSE JoinRow(d.grid, row, dims)
             \o (IF row # dims[1] - 1 THEN "\n" ELSE "") \o art(row + 1)
  IN  [board |-> d.board, art |-> art(0)]

\* a caller renders the game between two dig_nd calls: render_nd(game, xray)
RenderND(xray) ==
  /\ pc = "idle"
  /\ rendered' = [fn |-> "render_nd", xray |-> xray,
                  value |-> render_nd(board, hidden, dimensions, xray)]
  /\ UNCHANGED <<game, bombs, pc, coordinates, stack, arg, rv, ret, hidden0,
                 state0, expanded>>

\* render_2d_locations(game, xray) on a game of two dimensions
Render2DLocations(xray) ==
  /\ pc = "idle"
  /\ Len(dimensions) = 2
  /\ LET r == render_2d_locations(board, hidden, dimensions, xray)
     IN  /\ board' = r.board
         /\ rendered' = [fn |-> "render_2d_locations", xray |-> xray,
                         value |-> r.grid]
  /\ UNCHANGED <<dimensions, hidden, state, bombs, pc, coordinates, stack, arg,
                 rv, ret, hidden0, state0, expanded>>

\* render_2d_board(game, xray) on a game of two dimensions
Render2DBoard(xray) ==
  /\ pc = "idle"
  /\ Len(dimensions) = 2
  /\ LET r == render_2d_board(board, hidden, dimensions, xray)
     IN  /\ board' = r.board
         /\ rendered' = [fn |-> "render_2d_board", xray |-> xray,
                         value |-> r.art]
  /\ UNCHANGED <<dimensions, hidden, state, bombs, pc, coordinates, stack, arg,
                 rv, ret, hidden0, state0, expanded>>

Next ==
  \/ \E c \in Cells(dimensions) : DigTerminal(c)
  \/ \E c \in Cells(dimensions) : DigBomb(c)
  \/ \E c \in Cells(dimensions) : DigZero(c)
  \/ \E c \in Cells(dimensions) : DigPositive(c)
  \/ ZeroGuard
  \/ ZeroExpand
  \/ ZeroNext
  \/ ZeroDone
  \/ ZeroReturn
  \/ DigReturn

Spec == Init /\ [][Next]_vars

SpecGiven == InitGiven /\ [][Next]_vars

\* a step inside a running dig_nd call
Running ==
  ZeroGuard \/ ZeroExpand \/ ZeroNext \/ ZeroDone \/ ZeroReturn \/ DigReturn

\* the board of the doctests with any 'hidden' array and any state, as the
\* doctests of dig_2d and dig_nd write their games
InitDoctest ==
  /\ LET g == new_game_2d(2, 4, DoctestBombs)
     IN  /\ dimensions = g.dimensions /\ board = g.board
         /\ hidden \in [DOMAIN g.hidden -> BOOLEAN]
         /\ state \in {"ongoing", "defeat", "victory"}
         /\ bombs = DoctestBombs
  /\ Idle

\* Python runs a call it has begun on to its end: a running dig_nd call
\* always takes its next step
SpecFair == (Init \/ InitDoctest) /\ [][Next]_vars /\ WF_vars(Running)

\* the calls of the render functions
NextRender ==
  \/ \E xray \in BOOLEAN : RenderND(xray)
  \/ \E xray \in BOOLEAN : Render2DLocations(xray)
  \/ \E xray \in BOOLEAN : Render2DBoard(xray)

\* a 3-dimensional board on which the cell (1, 0, 0) has ten bombs around it
CrowdedDimensions == <<3, 2, 2>>
CrowdedBombs ==
  << <<0, 0, 1>>, <<0, 1, 0>>, <<0, 1, 1>>, <<1, 0, 1>>, <<1, 1, 0>>,
     <<1, 1, 1>>, <<2, 0, 0>>, <<2, 0, 1>>, <<2, 1, 0>>, <<2, 1, 1>> >>

\* the game new_game_nd((3, 2, 2), CrowdedBombs) returned
InitCrowded ==
  /\ LET g == new_game_nd(CrowdedDimensions, CrowdedBombs)
     IN  /\ dimensions = g.dimensions /\ board = g.board
         /\ hidden = g.hidden /\ state = g.state
         /\ bombs = CrowdedBombs
  /\ Idle

\* rendering alone: of the games new_game_nd returns, and of the games a
\* caller writes
SpecRender == (Init \/ InitCrowded \/ InitGiven) /\ [][NextRender]_vars

\* playing and rendering, from new_game_nd on
SpecAll == (Init \/ InitCrowded) /\ [][Next \/ NextRender]_vars

(* ----------------------- vocabulary of the claims --------------------- *)
\* a dig_nd call has been made and has returned
Returned == pc = "idle" /\ coordinates # <<>>

Terminal(st) == st \in {"defeat", "victory"}

BombCells == {c \in DOMAIN board : IsBombMarker(board[c])}
SafeCells == DOMAIN board \ BombCells
Revealed(h) == {c \in DOMAIN h : ~h[c]}

Abs(n) == IF n < 0 THEN -n ELSE n
\* c and n differ by at most 1 on every axis
Adjacent(c, n) == \A k \in 1..Len(c) : Abs(c[k] - n[k]) <= 1
\* the in-bounds neighbours of c, c itself included
Around(c) == {n \in DOMAIN board : Adjacent(c, n)}

(* ------------------------------- claims ------------------------------- *)
\* C1: in a game whose state is 'defeat' or 'victory' every step (a dig_nd
\* call at any valid coordinate) returns 0 and leaves board, hidden and state
\* as they are, so a terminal state never changes.
C1_TerminalIdempotence ==
  [][Terminal(state) =>
       /\ ret' = 0
       /\ board' = board /\ hidden' = hidden /\ state' = state]_vars

\* C1 witness: dig_nd was called on a game already won and returned 0
C1_Witness ==
  /\ Returned /\ state0 = "victory" /\ state = "victory" /\ ret = 0
  /\ hidden = hidden0

\* C2: no step of dig_nd, the single writes of zero included, turns a cell's
\* 'hidden' entry from False (revealed) back to True (hidden).
C2_MonotonicReveal ==
  [][\A c \in DOMAIN hidden : ~hidden[c] => ~hidden'[c]]_vars

\* C3: between dig_nd calls, from new_game_nd on, the state is 'victory' if
\* and only if every safe cell is revealed and every bomb cell is hidden.
C3_VictoryIff ==
  pc = "idle" =>
    (state = "victory" <=>
       /\ \A c \in SafeCells : ~hidden[c]
       /\ \A c \in BombCells : hidden[c])

\* C4: in every state reached from new_game_nd by dig_nd calls the state is
\* 'defeat' if and only if at least one bomb cell is revealed.
C4_DefeatIff ==
  state = "defeat" <=> \E c \in BombCells : ~hidden[c]

\* C4 witness: a bomb has been dug up and the game is lost
C4_Witness ==
  /\ Returned /\ state0 = "ongoing" /\ state = "defeat"
  /\ coordinates \in BombCells /\ ~hidden[coordinates]

\* C5: a dig_nd call on an ongoing game returns the number of cells that were
\* hidden before the call and are revealed after it.
C5_ReturnsNewlyRevealed ==
  (Returned /\ state0 = "ongoing") =>
    ret = Cardinality(Revealed(hidden) \ Revealed(hidden0))

RECURSIVE FloodClosure(_)
\* the smallest superset of S closed under "a cell of value 0 brings in all
\* its in-bounds neighbours"
FloodClosure(S) ==
  LET more == S \cup UNION {Around(c) : c \in {z \in S : IsZero(board[z])}}
  IN  IF more = S THEN S ELSE FloodClosure(more)

\* C6: after dig_nd on an ongoing game at a hidden cell of value 0 the
\* revealed cells are the cells revealed before together with the flood set
\* of the dug cell, and no bomb cell is revealed.
C6_FloodFillRevealSet ==
  (/\ Returned /\ state0 = "ongoing"
   /\ hidden0[coordinates] /\ IsZero(board[coordinates])) =>
    /\ Revealed(hidden) = Revealed(hidden0) \cup FloodClosure({coordinates})
    /\ Revealed(hidden) \cap BombCells = {}

\* C7: dig_nd on an ongoing game at a cell holding a positive count reveals
\* that cell, leaves every other cell's 'hidden' entry alone and returns 1.
C7_DigPositiveReveals ==
  (/\ Returned /\ state0 = "ongoing"
   /\ IsPositive(board[coordinates])) =>
    /\ ~hidden[coordinates]
    /\ \A c \in DOMAIN hidden \ {coordinates} : hidden[c] = hidden0[c]
    /\ ret = 1

\* C8: dig_nd on an ongoing game at a bomb cell reveals that cell, leaves
\* every other cell's 'hidden' entry alone, sets the state to 'defeat' and
\* returns 1.
C8_DigBomb ==
  (/\ Returned /\ state0 = "ongoing"
   /\ IsBombMarker(board[coordinates])) =>
    /\ ~hidden[coordinates]
    /\ \A c \in DOMAIN hidden \ {coordinates} : hidden[c] = hidden0[c]
    /\ state = "defeat"
    /\ ret = 1

\* C8 witness: a bomb was dug up in an ongoing game in which another cell
\* had been revealed before
C8_Witness ==
  /\ Returned /\ state0 = "ongoing"
  /\ IsBombMarker(board[coordinates])
  /\ hidden0[coordinates] /\ ~hidden[coordinates]
  /\ \E c \in DOMAIN hidden : c # coordinates /\ ~hidden0[c]
  /\ \E c \in DOMAIN hidden : c # coordinates /\ hidden0[c]
  /\ ret = 1

\* the bomb coordinates new_game_nd was given, each once
BombSet == {bombs[k] : k \in 1..Len(bombs)}

\* C9: after new_game_nd every bomb coordinate's cell holds '.', and every
\* other cell holds the number of distinct bomb coordinates among its
\* neighbours (the cell itself excluded).
C9_AdjacencyCounts ==
  \A c \in DOMAIN board :
    IF c \in BombSet
    THEN IsBombMarker(board[c])
    ELSE /\ board[c].ty = "int"
         /\ board[c].v = Cardinality((Around(c) \ {c}) \cap BombSet)

\* C10: on the fresh game new_game_2d(2, 4, [(0, 0), (1, 0), (1, 1)]),
\* dig_2d(game, 0, 3) returns 4, leaves exactly the cells of the right two
\* columns revealed and ends with state 'victory'.
C10_FloodFillScenario ==
  (/\ Returned /\ dimensions = <<2, 4>> /\ bombs = DoctestBombs
   /\ coordinates = <<0, 3>> /\ state0 = "ongoing"
   /\ Revealed(hidden0) = {}) =>
    /\ ret = 4
    /\ Revealed(hidden) = {<<0, 2>>, <<0, 3>>, <<1, 2>>, <<1, 3>>}
    /\ state = "victory"

\* the symbol the claim gives the cell c
Symbol(c, xray) ==
  IF ~xray /\ hidden[c] THEN "_"
  ELSE IF IsBombMarker(board[c]) THEN "."
  ELSE IF board[c].v = 0 THEN " "
  ELSE IntStr(board[c].v)

\* C11: render_nd(game, xray) returns an array of the board's shape whose
\* cell c is '_' when xray is false and c is hidden, and otherwise ' ' for
\* the value 0, '.' for a bomb and the decimal text of a positive count; with
\* xray true 'hidden' plays no part.
C11_RenderSymbols ==
  rendered.fn = "render_nd" =>
    /\ DOMAIN rendered.value = DOMAIN board
    /\ \A c \in DOMAIN board : rendered.value[c] = Symbol(c, rendered.xray)

\* C11 witness: render_nd without xray returned a grid showing a hidden cell,
\* a revealed bomb, a revealed empty cell and a revealed count
C11_Witness ==
  /\ rendered.fn = "render_nd" /\ ~rendered.xray
  /\ \E c \in DOMAIN board : hidden[c] /\ rendered.value[c] = "_"
  /\ \E c \in DOMAIN board : ~hidden[c] /\ rendered.value[c] = "."
  /\ \E c \in DOMAIN board : ~hidden[c] /\ rendered.value[c] = " "
  /\ \E c \in DOMAIN board : ~hidden[c] /\ rendered.value[c] = "3"

\* C12: no step, of dig_nd in any state or of a render function, changes the
\* game's board or dimensions, and a step of a render function changes
\* neither 'hidden' nor the state.
C12_BoardImmutable ==
  [][/\ board' = board
     /\ dimensions' = dimensions
     /\ (rendered'.fn # "none" => hidden' = hidden /\ state' = state)]_vars

\* C12 witness: render_2d_locations has run on a game in which a bomb had
\* been dug up, and the board still holds its ints and '.'
C12_Witness ==
  /\ rendered.fn = "render_2d_locations" /\ state = "defeat"
  /\ \E c \in DOMAIN board : IsPositive(board[c])
  /\ \E c \in DOMAIN board : IsBombMarker(board[c]) /\ ~hidden[c]

\* C13: for every valid coordinate c of a board of 1 to 3 axes,
\* get_neighbors(dimensions, c) yields exactly the in-bounds coordinates that
\* differ from c by -1, 0 or +1 on every axis, c included, each once.  (The
\* boards are those of the games; zero keeps the list in its activation
\* record.)
C13_NeighborsExact ==
  \A c \in DOMAIN board :
    LET yielded == get_neighbors(dimensions, c)
    IN  /\ {yielded[k] : k \in 1..Len(yielded)} = Around(c)
        /\ \A j, k \in 1..Len(yielded) : yielded[j] = yielded[k] => j = k
        /\ \E k \in 1..Len(yielded) : yielded[k] = c

\* C13 witness: zero holds the neighbors of a cell of a 3-axis board some of
\* whose cells are no neighbours of it
C13_Witness ==
  /\ pc = "loop" /\ stack # <<>> /\ Len(dimensions) = 3
  /\ LET f == Head(stack)
     IN  /\ f.neighbors = get_neighbors(dimensions, f.coordinates)
         /\ Len(f.neighbors) >= 2
         /\ {f.neighbors[k] : k \in 1..Len(f.neighbors)} = Around(f.coordinates)
         /\ Around(f.coordinates) # DOMAIN board

\* C14: every dig_nd call ends, and within one call zero goes past its guard
\* (marks the cell and explores its neighbours) at most once on each cell.
C14_DigTerminates ==
  /\ [](pc # "idle" => <>(pc = "idle"))
  /\ [](\A j, k \in 1..Len(expanded) : expanded[j] = expanded[k] => j = k)

\* C14 witness: a dig_nd call has ended in which zero went past its guard on
\* three cells and found a cell hidden
C14_Witness ==
  /\ Returned /\ Len(expanded) >= 3 /\ ret >= 1

\* C15: on every game of two dimensions, whatever its board, its 'hidden'
\* array and xray, render_2d_locations returns the grid render_nd returns.
C15_Render2DEqualsND ==
  rendered.fn = "render_2d_locations" =>
    rendered.value = render_nd(board, hidden, dimensions, rendered.xray)

\* C15 witness: render_2d_locations has returned, with xray True, a grid in
\* which a bomb, a count and a zero cell are shown although hidden
C15_Witness ==
  /\ rendered.fn = "render_2d_locations" /\ rendered.xray
  /\ \E c \in DOMAIN board : hidden[c] /\ rendered.value[c] = "."
  /\ \E c \in DOMAIN board : hidden[c] /\ rendered.value[c] = "1"
  /\ \E c \in DOMAIN board : hidden[c] /\ rendered.value[c] = " "

\* C16 as stated: every cell of the array render_nd returns is a string of
\* one character.
C16_SingleCharacter ==
  rendered.fn = "render_nd" =>
    \A c \in DOMAIN rendered.value : Len(rendered.value[c]) = 1

\* the cell c is shown and holds a count of ten or more
ShowsLargeCount(c) ==
  /\ rendered.xray \/ ~hidden[c]
  /\ IsPositive(board[c]) /\ board[c].v >= 10

\* C16 (amended): a cell of the array render_nd returns is a string of one
\* character unless it shows a count of ten or more, which is rendered as its
\* decimal text of two or more characters.
C16_SingleCharacterBelowTen ==
  rendered.fn = "render_nd" =>
    \A c \in DOMAIN rendered.value :
      IF ShowsLargeCount(c)
      THEN /\ rendered.value[c] = IntStr(board[c].v)
           /\ Len(rendered.value[c]) >= 2
      ELSE Len(rendered.value[c]) = 1

\* C16 witness: render_nd has returned the array of a game of three
\* dimensions in which one cell reads "10" and the others one character
C16_Witness ==
  /\ rendered.fn = "render_nd" /\ Len(dimensions) = 3
  /\ \E c \in DOMAIN rendered.value : rendered.value[c] = "10"
  /\ \E c \in DOMAIN rendered.value : rendered.value[c] = "."

\* C17: from new_game_nd on, at every step of every dig_nd call, at most one
\* bomb cell is revealed ('hidden' False).
C17_OneBombRevealed ==
  Cardinality(Revealed(hidden) \cap BombCells) <= 1

\* C17 witness: on a board of two bombs or more a dig_nd call at a hidden
\* bomb has returned 0 in a game lost before, that bomb still hidden
C17_Witness ==
  /\ Returned /\ state0 = "defeat" /\ ret = 0
  /\ coordinates \in BombCells /\ hidden[coordinates]
  /\ Cardinality(Revealed(hidden) \cap BombCells) = 1

\* the bomb list in the order p
Permuted(bombList, p) == [k \in 1..Len(bombList) |-> bombList[p[k]]]

\* C18: new_game_nd returns, for every reordering of the bomb list, the game
\* it returns for the list itself: the same dimensions, board, all-True
\* 'hidden' array and state 'ongoing'.  (Stated of the game as new_game_nd
\* returned it, before any dig_nd call.)
C18_BombOrderIndependent ==
  (pc = "idle" /\ coordinates = <<>>) =>
    \A p \in Permutations(1..Len(bombs)) :
      LET g == new_game_nd(dimensions, Permuted(bombs, p))
      IN  /\ g = new_game_nd(dimensions, bombs)
          /\ g.dimensions = dimensions /\ g.board = board
          /\ g.hidden = hidden /\ g.state = state
          /\ g.hidden = new_board(dimensions, TRUE) /\ g.state = "ongoing"

\* C18 witness: a game fresh from new_game_nd whose bomb list holds two
\* different bombs next to each other and a cell that counts both
C18_Witness ==
  /\ pc = "idle" /\ coordinates = <<>> /\ Len(bombs) >= 2
  /\ bombs[1] # bombs[2] /\ Adjacent(bombs[1], bombs[2])
  /\ \E p \in Permutations(1..Len(bombs)) : Permuted(bombs, p) # bombs
  /\ \E c \in DOMAIN board : IsPositive(board[c]) /\ board[c].v >= 2

====
